---- MODULE Spec2Model ----
(***************************************************************************)
(* Social_Media_Content_Generator.py: the template text composer, the      *)
(* hashtag suggester, the keyword extractors, the structured result parser *)
(* and the title/description splitter; then LLMService.generate_content,   *)
(* the PostRepository tables, and the session with the settings form and   *)
(* generate_comprehensive_content.                                         *)
(*                                                                         *)
(* A text is a sequence of one-character strings, so that len(), slicing,  *)
(* replace(), lower() and the regular expressions are computed character   *)
(* by character.  A character outside ASCII is written "U+XXXX" (the       *)
(* source file holds its emoji and dashes as such characters: the emoji of *)
(* line 106 is the four characters U+F8FF U+00FC U+00F2 U+00D1).           *)
(***************************************************************************)
EXTENDS Integers, Sequences, FiniteSets, TLC

VARIABLES
    pc,              \* position of the call under way
    request,         \* generate_text_post: topic, content_type, platform, tone, cta
    base_template,   \* generate_text_post: the template random.choice picked
    generated_text,  \* generate_text_post: the text returned
    tag_text,        \* suggest_hashtags: the text argument
    tag_count,       \* suggest_hashtags: the count argument
    suggested_hashtags,  \* suggest_hashtags: the set accumulated
    hashtag_list,    \* suggest_hashtags: the list cut from the set and padded
    returned_hashtags,   \* suggest_hashtags: the list returned
    kw_text,         \* keyword extractors: the text argument
    keywords,        \* keyword extractors: the list returned
    complex_result,  \* parse_complex_result: the text argument
    normalised,      \* parse_complex_result: text after re.sub
    parsed,          \* parse_complex_result: the dict returned
    line,            \* split_title_desc: the line argument
    title_desc,      \* split_title_desc: the pair returned
    service_api_key, \* LLMService: the api_key of the service object
    prompt,          \* generate_content: the prompt argument
    http_request,    \* generate_content: what requests.post is given
    response,        \* generate_content: what requests.post does
    llm_result,      \* generate_content: the value returned, or the exception raised
    posts,           \* PostRepository: the rows of table posts
    last_id,         \* PostRepository: the AUTOINCREMENT sequence of table posts
    user_settings,   \* PostRepository: the rows of table user_settings
    repo_returned,   \* PostRepository: what the call under way returned
    saved_posts,     \* history: the post each save_post was given, by the id it returned
    deleted_ids,     \* history: the ids of saved posts given to delete_post since
    last_settings,   \* history: the settings the last save_settings was given
    session_state,   \* st.session_state: the keys set and their values
    gen_request,     \* generate_comprehensive_content: its arguments
    ai_content,      \* generate_comprehensive_content: what the remote call for the posts returned
    generated_posts, \* generate_comprehensive_content: the text shown and offered for saving, by platform
    blocks,          \* generate_comprehensive_content: the branch each of its four blocks took
    remote_calls     \* generate_comprehensive_content: the calls of llm_service.generate_content it made

postVars == <<request, base_template, generated_text>>
tagVars == <<tag_text, tag_count, suggested_hashtags, hashtag_list, returned_hashtags>>
kwVars == <<kw_text, keywords>>
parseVars == <<complex_result, normalised, parsed>>
splitVars == <<line, title_desc>>
coreVars == <<postVars, tagVars, kwVars, parseVars, splitVars>>
llmVars == <<service_api_key, prompt, http_request, response, llm_result>>
repoVars == <<posts, last_id, user_settings, repo_returned, saved_posts, deleted_ids, last_settings>>
sessionVars == <<session_state, gen_request, ai_content, generated_posts, blocks, remote_calls>>
appVars == <<llmVars, repoVars, sessionVars>>
vars == <<pc, coreVars, appVars>>

(***************************************************************************)
(* Text helpers                                                            *)
(***************************************************************************)
Range(s) == {s[i] : i \in 1..Len(s)}

Max(a, b) == IF a > b THEN a ELSE b

Rep(c, n) == [i \in 1..n |-> c]

Min(a, b) == IF a < b THEN a ELSE b

\* s[:n] for n >= 0
Prefix(s, n) == SubSeq(s, 1, Min(n, Len(s)))

\* str.replace(old, new) for one-character old and new
ReplaceChar(text, old, new) == [i \in 1..Len(text) |-> IF text[i] = old THEN new ELSE text[i]]

\* sub in text at position i
OccursAt(text, sub, i) ==
    /\ i >= 1
    /\ i + Len(sub) - 1 <= Len(text)
    /\ \A k \in 1..Len(sub) : text[i + k - 1] = sub[k]

\* sub in text
Contains(text, sub) == \E i \in 1..(Len(text) - Len(sub) + 1) : OccursAt(text, sub, i)

\* text.find(sub) + 1, 0 when absent
Find(text, sub) ==
    IF Contains(text, sub)
    THEN CHOOSE i \in 1..(Len(text) - Len(sub) + 1) :
            /\ OccursAt(text, sub, i)
            /\ \A j \in 1..(i - 1) : ~OccursAt(text, sub, j)
    ELSE 0

UpperChars == <<"A", "B", "C", "D", "E", "F", "G", "H", "I", "J", "K", "L", "M", "N", "O", "P", "Q", "R", "S", "T", "U", "V", "W", "X", "Y", "Z">>
LowerChars == <<"a", "b", "c", "d", "e", "f", "g", "h", "i", "j", "k", "l", "m", "n", "o", "p", "q", "r", "s", "t", "u", "v", "w", "x", "y", "z">>

\* str.lower(), one character
LowerOf ==
    [c \in Range(UpperChars) |-> LowerChars[CHOOSE i \in 1..Len(UpperChars) : UpperChars[i] = c]]

LowerChar(c) == IF c \in DOMAIN LowerOf THEN LowerOf[c] ELSE c

\* str.lower()
Lower(s) == [i \in 1..Len(s) |-> LowerChar(s[i])]

\* seq[:n], n of either sign
Slice(s, n) == IF n >= 0 THEN Prefix(s, n) ELSE SubSeq(s, 1, Max(0, Len(s) + n))

(***************************************************************************)
(* ContentGenerator                                                        *)
(***************************************************************************)
platform_limits == [Twitter |-> 280, Facebook |-> 2000, Instagram |-> 2200, LinkedIn |-> 3000]

content_templates ==
    [promotional |-> <<
        <<"U+F8FF", "U+00FC", "U+00F6", "U+00C4", " ", "E", "x", "c", "i", "t", "i", "n", "g", " ", "n", "e", "w", "s", "!", " ", "{", "t", "o", "p", "i", "c", "}", " ", "i", "s", " ", "h", "e", "r", "e", " ", "t", "o", " ", "r", "e", "v", "o", "l", "u", "t", "i", "o", "n", "i", "z", "e", " ", "y", "o", "u", "r", " ", "e", "x", "p", "e", "r", "i", "e", "n", "c", "e", ".", " ", "D", "o", "n", "'", "t", " ", "m", "i", "s", "s", " ", "o", "u", "t", " ", "o", "n", " ", "t", "h", "i", "s", " ", "a", "m", "a", "z", "i", "n", "g", " ", "o", "p", "p", "o", "r", "t", "u", "n", "i", "t", "y", "!">>,
        <<"U+201A", "U+00FA", "U+00AE", " ", "D", "i", "s", "c", "o", "v", "e", "r", " ", "t", "h", "e", " ", "p", "o", "w", "e", "r", " ", "o", "f", " ", "{", "t", "o", "p", "i", "c", "}", "!", " ", "J", "o", "i", "n", " ", "t", "h", "o", "u", "s", "a", "n", "d", "s", " ", "o", "f", " ", "s", "a", "t", "i", "s", "f", "i", "e", "d", " ", "c", "u", "s", "t", "o", "m", "e", "r", "s", " ", "w", "h", "o", " ", "h", "a", "v", "e", " ", "a", "l", "r", "e", "a", "d", "y", " ", "t", "r", "a", "n", "s", "f", "o", "r", "m", "e", "d", " ", "t", "h", "e", "i", "r", " ", "l", "i", "v", "e", "s", ".">>,
        <<"U+F8FF", "U+00FC", "U+00E9", "U+00D8", " ", "R", "e", "a", "d", "y", " ", "t", "o", " ", "t", "a", "k", "e", " ", "y", "o", "u", "r", " ", "{", "t", "o", "p", "i", "c", "}", " ", "t", "o", " ", "t", "h", "e", " ", "n", "e", "x", "t", " ", "l", "e", "v", "e", "l", "?", " ", "O", "u", "r", " ", "s", "o", "l", "u", "t", "i", "o", "n", " ", "i", "s", " ", "e", "x", "a", "c", "t", "l", "y", " ", "w", "h", "a", "t", " ", "y", "o", "u", "'", "v", "e", " ", "b", "e", "e", "n", " ", "l", "o", "o", "k", "i", "n", "g", " ", "f", "o", "r", "!">> >>,
     informative |-> <<
        <<"D", "i", "d", " ", "y", "o", "u", " ", "k", "n", "o", "w", " ", "t", "h", "a", "t", " ", "{", "t", "o", "p", "i", "c", "}", " ", "c", "a", "n", " ", "s", "i", "g", "n", "i", "f", "i", "c", "a", "n", "t", "l", "y", " ", "i", "m", "p", "a", "c", "t", " ", "y", "o", "u", "r", " ", "d", "a", "i", "l", "y", " ", "r", "o", "u", "t", "i", "n", "e", "?", " ", "H", "e", "r", "e", " ", "a", "r", "e", " ", "s", "o", "m", "e", " ", "k", "e", "y", " ", "i", "n", "s", "i", "g", "h", "t", "s", " ", "t", "o", " ", "c", "o", "n", "s", "i", "d", "e", "r", ".">>,
        <<"U", "n", "d", "e", "r", "s", "t", "a", "n", "d", "i", "n", "g", " ", "{", "t", "o", "p", "i", "c", "}", " ", "i", "s", " ", "c", "r", "u", "c", "i", "a", "l", " ", "i", "n", " ", "t", "o", "d", "a", "y", "'", "s", " ", "w", "o", "r", "l", "d", ".", " ", "L", "e", "t", "'", "s", " ", "e", "x", "p", "l", "o", "r", "e", " ", "t", "h", "e", " ", "f", "a", "c", "t", "s", " ", "a", "n", "d", " ", "b", "e", "n", "e", "f", "i", "t", "s", " ", "t", "o", "g", "e", "t", "h", "e", "r", ".">>,
        <<"U+F8FF", "U+00FC", "U+00EC", "U+00E4", " ", "R", "e", "s", "e", "a", "r", "c", "h", " ", "s", "h", "o", "w", "s", " ", "t", "h", "a", "t", " ", "{", "t", "o", "p", "i", "c", "}", " ", "p", "l", "a", "y", "s", " ", "a", " ", "v", "i", "t", "a", "l", " ", "r", "o", "l", "e", " ", "i", "n", " ", "m", "o", "d", "e", "r", "n", " ", "b", "u", "s", "i", "n", "e", "s", "s", ".", " ", "H", "e", "r", "e", "'", "s", " ", "w", "h", "a", "t", " ", "y", "o", "u", " ", "n", "e", "e", "d", " ", "t", "o", " ", "k", "n", "o", "w", ".">> >>,
     question |-> <<
        <<"W", "h", "a", "t", "'", "s", " ", "y", "o", "u", "r", " ", "e", "x", "p", "e", "r", "i", "e", "n", "c", "e", " ", "w", "i", "t", "h", " ", "{", "t", "o", "p", "i", "c", "}", "?", " ", "W", "e", "'", "d", " ", "l", "o", "v", "e", " ", "t", "o", " ", "h", "e", "a", "r", " ", "y", "o", "u", "r", " ", "t", "h", "o", "u", "g", "h", "t", "s", " ", "a", "n", "d", " ", "s", "t", "o", "r", "i", "e", "s", "!">>,
        <<"H", "o", "w", " ", "h", "a", "s", " ", "{", "t", "o", "p", "i", "c", "}", " ", "c", "h", "a", "n", "g", "e", "d", " ", "y", "o", "u", "r", " ", "p", "e", "r", "s", "p", "e", "c", "t", "i", "v", "e", "?", " ", "S", "h", "a", "r", "e", " ", "y", "o", "u", "r", " ", "i", "n", "s", "i", "g", "h", "t", "s", " ", "i", "n", " ", "t", "h", "e", " ", "c", "o", "m", "m", "e", "n", "t", "s", " ", "b", "e", "l", "o", "w", "!">>,
        <<"U+F8FF", "U+00FC", "U+00A7", "U+00EE", " ", "W", "h", "a", "t", " ", "w", "o", "u", "l", "d", " ", "y", "o", "u", " ", "d", "o", " ", "i", "f", " ", "{", "t", "o", "p", "i", "c", "}", " ", "w", "a", "s", "n", "'", "t", " ", "a", "v", "a", "i", "l", "a", "b", "l", "e", "?", " ", "L", "e", "t", "'", "s", " ", "d", "i", "s", "c", "u", "s", "s", " ", "t", "h", "e", " ", "a", "l", "t", "e", "r", "n", "a", "t", "i", "v", "e", "s", "!">> >>]

Placeholder == <<"{", "t", "o", "p", "i", "c", "}">>

\* base_template.format(topic=topic): the one replacement field of the template
Format(template, topic) ==
    LET i == Find(template, Placeholder)
    IN  SubSeq(template, 1, i - 1) \o topic \o SubSeq(template, i + Len(Placeholder), Len(template))

\* mutant: the fallback pool is the promotional one
TemplatesFor_FallbackPromotional(content_type) ==
    IF content_type \in DOMAIN content_templates
    THEN content_templates[content_type]
    ELSE content_templates["promotional"]

\* self.content_templates.get(content_type, self.content_templates["informative"])
TemplatesFor(content_type) ==
    IF content_type \in DOMAIN content_templates
    THEN content_templates[content_type]
    ELSE content_templates["informative"]

HumorousSuffix == <<" ", "U+F8FF", "U+00FC", "U+00F2", "U+00D1">>

\* mutant: the humorous branch is also taken for the professional tone
ApplyTone_SuffixForProfessional(text, tone) ==
    IF tone = "humorous" \/ tone = "professional" THEN text \o HumorousSuffix
    ELSE text

ApplyTone(text, tone) ==
    IF tone = "humorous" THEN text \o HumorousSuffix
    ELSE IF tone = "professional" THEN ReplaceChar(text, "!", ".")
    ELSE text

AddCta(text, cta) == IF cta # <<>> THEN text \o <<" ">> \o cta ELSE text

DefaultLimit == 2000

\* self.platform_limits.get(platform, 2000)
PlatformLimit(platform) ==
    IF platform \in DOMAIN platform_limits THEN platform_limits[platform] ELSE DefaultLimit

Ellipsis == <<".", ".", ".">>

\* mutant: the ellipsis is appended to a prefix as long as the limit
FitPlatform_NoRoomForEllipsis(text, platform) ==
    LET platform_limit == PlatformLimit(platform)
    IN  IF Len(text) > platform_limit
        THEN Prefix(text, platform_limit) \o Ellipsis
        ELSE text

FitPlatform(text, platform) ==
    LET platform_limit == PlatformLimit(platform)
    IN  IF Len(text) > platform_limit
        THEN Prefix(text, platform_limit - 3) \o Ellipsis
        ELSE text

\* mutant: the cta is appended before the tone step
Composed_CtaBeforeTone(template, topic, tone, cta) ==
    ApplyTone(AddCta(Format(template, topic), cta), tone)

\* the text before the length check of lines 114-118
Composed(template, topic, tone, cta) == AddCta(ApplyTone(Format(template, topic), tone), cta)

\* mutant: the tone step runs on the template, before the topic is filled in
generate_text_post_ToneBeforeFormat(template, topic, platform, tone, cta) ==
    FitPlatform(AddCta(Format(ApplyTone(template, tone), topic), cta), platform)

generate_text_post(template, topic, platform, tone, cta) ==
    FitPlatform(Composed(template, topic, tone, cta), platform)

(***************************************************************************)
(* Inputs of generate_text_post                                            *)
(***************************************************************************)
MaxExcess == 1

ContentTypes == {"promotional", "informative", "question", "announcement"}
Platforms == {"Twitter", "Facebook", "Instagram", "LinkedIn", "Mastodon"}
Tones == {"professional", "casual", "humorous", "empathetic"}
Ctas == {<<>>, <<"S", "h", "o", "p", " ", "N", "o", "w", "!">>}

Limits == {PlatformLimit(p) : p \in Platforms}

\* topics that bring the second informative template to a limit and past it
RefLen == Len(Format(content_templates.informative[2], <<>>))
TopicLens == {0} \cup {l - RefLen + d : l \in Limits, d \in 0..MaxExcess}
Topics == {Rep("a", n) : n \in TopicLens} \cup {<<"c", "o", "f", "f", "e", "e">>, <<"H", "i", "!">>}

NoRequest == [topic |-> <<>>, content_type |-> "", platform |-> "", tone |-> "", cta |-> <<>>]

PostIdle ==
    /\ request = NoRequest
    /\ base_template = <<>>
    /\ generated_text = <<>>

PostInit ==
    /\ pc = "generate_text_post"
    /\ request \in [topic : Topics, content_type : ContentTypes, platform : Platforms,
                    tone : Tones, cta : Ctas]
    /\ base_template = <<>>
    /\ generated_text = <<>>

GenerateTextPost ==
    /\ pc = "generate_text_post"
    /\ \E template \in {TemplatesFor(request.content_type)[k] : k \in 1..3} :
          /\ base_template' = template
          /\ generated_text' = generate_text_post(template, request.topic, request.platform,
                                                  request.tone, request.cta)
    /\ pc' = "returned"
    /\ UNCHANGED <<request, tagVars, kwVars, parseVars, splitVars, appVars>>

(***************************************************************************)
(* HashtagSuggester                                                        *)
(***************************************************************************)
\* the dict in insertion order
hashtag_database == <<
    [category |-> <<"b", "u", "s", "i", "n", "e", "s", "s">>,
     hashtags |-> <<"#business", "#entrepreneur", "#startup", "#success", "#growth">>],
    [category |-> <<"t", "e", "c", "h", "n", "o", "l", "o", "g", "y">>,
     hashtags |-> <<"#tech", "#innovation", "#digital", "#AI", "#future">>],
    [category |-> <<"m", "a", "r", "k", "e", "t", "i", "n", "g">>,
     hashtags |-> <<"#marketing", "#socialmedia", "#branding", "#content", "#strategy">>],
    [category |-> <<"h", "e", "a", "l", "t", "h">>,
     hashtags |-> <<"#health", "#wellness", "#fitness", "#lifestyle", "#selfcare">>],
    [category |-> <<"e", "d", "u", "c", "a", "t", "i", "o", "n">>,
     hashtags |-> <<"#education", "#learning", "#knowledge", "#skills", "#development">> ] >>

trending_hashtags == <<"#trending", "#viral", "#popular", "#2025", "#new">>

generic_hashtags == <<"#content", "#social", "#post", "#share", "#engage">>

\* mutant: the category is looked for in text, not in text.lower()
CategoryHashtags_CaseSensitive(t) ==
    UNION {Range(Prefix(hashtag_database[k].hashtags, 3)) :
             k \in {j \in 1..Len(hashtag_database) :
                       Contains(t, hashtag_database[j].category)}}

\* lines 153-156: hashtags[:3] of every category found in text.lower()
CategoryHashtags(t) ==
    LET text_lower == Lower(t)
    IN  UNION {Range(Prefix(hashtag_database[k].hashtags, 3)) :
                 k \in {j \in 1..Len(hashtag_database) :
                           Contains(text_lower, hashtag_database[j].category)}}

\* mutant: random.choice in place of random.sample(..., 2)
TrendingSamples_One == {{h} : h \in Range(trending_hashtags)}

\* line 159: the sets random.sample(self.trending_hashtags, min(2, len)) can give
TrendingSamples ==
    {s \in SUBSET Range(trending_hashtags) : Cardinality(s) = Min(2, Len(trending_hashtags))}

\* line 162: list(set)[:n] in any order the set may be listed in
Listings(set, n) ==
    LET keep == Len(Slice([i \in 1..Cardinality(set) |-> i], n))
    IN  {l \in [1..keep -> set] : \A i, j \in 1..keep : i # j => l[i] # l[j]}

\* line 165: the condition of the while loop
NeedsPadding(list, n) == Len(list) < n

\* lines 167-171: the for loop over generic_hashtags, from its k-th item on
RECURSIVE PadFrom(_, _, _)
PadFrom(list, n, k) ==
    IF k > Len(generic_hashtags) THEN list
    ELSE IF generic_hashtags[k] \notin Range(list)
         THEN LET longer == Append(list, generic_hashtags[k])
              IN  IF Len(longer) >= n THEN longer ELSE PadFrom(longer, n, k + 1)
         ELSE PadFrom(list, n, k + 1)

(***************************************************************************)
(* Inputs of suggest_hashtags                                              *)
(***************************************************************************)
MaxCount == 8
DefaultCount == 5

OneCategoryTexts == {<<>>, <<"O", "u", "r", " ", "n", "e", "w", " ", "t", "e", "c", "h", "n", "o", "l", "o", "g", "y", " ", "p", "r", "o", "d", "u", "c", "t">>, <<"N", "e", "w", " ", "T", "e", "c", "h", "n", "o", "l", "o", "g", "y", " ", "l", "a", "u", "n", "c", "h">>}
TwoCategoryTexts == {<<"t", "e", "c", "h", "n", "o", "l", "o", "g", "y", " ", "b", "u", "s", "i", "n", "e", "s", "s">>}

\* every count with the texts of at most one category; the default count, the
\* one the application calls with (line 557), with the text of two
HashtagCalls ==
    (OneCategoryTexts \X ((-1)..MaxCount)) \cup (TwoCategoryTexts \X {DefaultCount})

TagIdle ==
    /\ tag_text = <<>>
    /\ tag_count = 0
    /\ suggested_hashtags = {}
    /\ hashtag_list = <<>>
    /\ returned_hashtags = <<>>

HashtagInit ==
    /\ pc = "suggest_hashtags"
    /\ \E call \in HashtagCalls : tag_text = call[1] /\ tag_count = call[2]
    /\ suggested_hashtags = {}
    /\ hashtag_list = <<>>
    /\ returned_hashtags = <<>>

\* lines 149-159
CollectHashtags ==
    /\ pc = "suggest_hashtags"
    /\ \E sample \in TrendingSamples :
          suggested_hashtags' = CategoryHashtags(tag_text) \cup sample
    /\ pc' = "list"
    /\ UNCHANGED <<tag_text, tag_count, hashtag_list, returned_hashtags, postVars, kwVars, parseVars, splitVars, appVars>>

\* line 162
ListHashtags ==
    /\ pc = "list"
    /\ hashtag_list' \in Listings(suggested_hashtags, tag_count)
    /\ pc' = "while"
    /\ UNCHANGED <<tag_text, tag_count, suggested_hashtags, returned_hashtags, postVars, kwVars, parseVars, splitVars, appVars>>

\* lines 165-171: one pass of the while loop
PadPass ==
    /\ pc = "while"
    /\ NeedsPadding(hashtag_list, tag_count)
    /\ hashtag_list' = PadFrom(hashtag_list, tag_count, 1)
    /\ UNCHANGED <<pc, tag_text, tag_count, suggested_hashtags, returned_hashtags, postVars, kwVars, parseVars, splitVars, appVars>>

\* line 173
ReturnHashtags ==
    /\ pc = "while"
    /\ ~NeedsPadding(hashtag_list, tag_count)
    /\ returned_hashtags' = Slice(hashtag_list, tag_count)
    /\ pc' = "returned"
    /\ UNCHANGED <<tag_text, tag_count, suggested_hashtags, hashtag_list, postVars, kwVars, parseVars, splitVars, appVars>>

HashtagNext == CollectHashtags \/ ListHashtags \/ PadPass \/ ReturnHashtags

(***************************************************************************)
(* Keyword extractors                                                      *)
(***************************************************************************)
Digits == <<"0", "1", "2", "3", "4", "5", "6", "7", "8", "9">>

\* \w, over the characters of the texts checked
IsWordChar(c) == c \in Range(LowerChars) \cup Range(UpperChars) \cup Range(Digits) \cup {"_"}

\* re.findall(r'\b\w+\b', s): the maximal runs of word characters, left to right;
\* word is the run being read at position i
RECURSIVE FindWords(_, _, _)
FindWords(s, i, word) ==
    LET done == IF word = <<>> THEN <<>> ELSE <<word>>
    IN  IF i > Len(s) THEN done
        ELSE IF IsWordChar(s[i]) THEN FindWords(s, i + 1, Append(word, s[i]))
        ELSE done \o FindWords(s, i + 1, <<>>)

\* line 231
common_words == {<<"t", "h", "e">>, <<"a">>, <<"a", "n">>, <<"a", "n", "d">>, <<"o", "r">>, <<"b", "u", "t">>, <<"i", "n">>, <<"o", "n">>, <<"a", "t">>, <<"t", "o">>,
                 <<"f", "o", "r">>, <<"o", "f">>, <<"w", "i", "t", "h">>, <<"b", "y">>}

\* line 634
common == {<<"t", "h", "e">>, <<"a">>, <<"a", "n">>, <<"a", "n", "d">>, <<"o", "r">>, <<"b", "u", "t">>, <<"i", "n">>, <<"o", "n">>, <<"a", "t">>, <<"t", "o">>,
           <<"f", "o", "r">>, <<"o", "f">>, <<"w", "i", "t", "h">>, <<"b", "y">>, <<"i", "s">>, <<"a", "r", "e">>, <<"t", "h", "i", "s">>, <<"t", "h", "a", "t">>, <<"f", "r", "o", "m">>,
           <<"a", "b", "o", "u", "t">>, <<"y", "o", "u", "r">>, <<"y", "o", "u">>, <<"o", "u", "r">>, <<"t", "h", "e", "i", "r">>, <<"i", "t", "'", "s">>, <<"i", "t", "s">>}

\* mutant: the length test is len(word) >= 3
KeepKeywords_AtLeast3(words, stop) ==
    SelectSeq(words, LAMBDA word : Len(word) >= 3 /\ word \notin stop)

\* lines 233 and 636: [word for word in words if len(word) > 3 and word not in stop]
KeepKeywords(words, stop) ==
    SelectSeq(words, LAMBDA word : Len(word) > 3 /\ word \notin stop)

\* ImageIdeaGenerator._extract_keywords
_extract_keywords(t) == Prefix(KeepKeywords(FindWords(Lower(t), 1, <<>>), common_words), 5)

\* the extract_keywords of the hashtag fallback
extract_keywords(t) == KeepKeywords(FindWords(Lower(t), 1, <<>>), common)

(***************************************************************************)
(* Inputs of the keyword extractors                                        *)
(***************************************************************************)
MaxPieces == 3

Pieces == {<<"T", "h", "e", " ">>, <<"W", "i", "t", "h", " ">>, <<"c", "o", "f", "f", "e", "e">>, <<" ", "i", "t", "'", "s", " ">>, <<"a", "b", "o", "u", "t", ":", " ">>, <<"n", "e", "w", " ">>, <<"A", "I", "_", "2", "0", "2", "5", " ">>,
           <<"F", "r", "e", "s", "h", " ", "b", "e", "a", "n", "s", " ", "r", "o", "a", "s", "t", " ", "d", "a", "i", "l", "y", ",", " ", "b", "r", "e", "w", "e", "d", " ", "t", "o", "d", "a", "y", "!", " ">>}

RECURSIVE TextsOf(_)
TextsOf(n) ==
    IF n = 0 THEN {<<>>}
    ELSE TextsOf(n - 1) \cup {t \o piece : t \in TextsOf(n - 1), piece \in Pieces}

KeywordTexts == TextsOf(MaxPieces)

KwIdle ==
    /\ kw_text = <<>>
    /\ keywords = <<>>

KwInit ==
    /\ pc = "extract_keywords"
    /\ kw_text \in KeywordTexts
    /\ keywords = <<>>

\* ImageIdeaGenerator._extract_keywords, lines 228-234
ExtractKeywordsForImages ==
    /\ pc = "extract_keywords"
    /\ keywords' = _extract_keywords(kw_text)
    /\ pc' = "returned _extract_keywords"
    /\ UNCHANGED <<kw_text, postVars, tagVars, parseVars, splitVars, appVars>>

\* extract_keywords, lines 633-637
ExtractKeywordsForHashtags ==
    /\ pc = "extract_keywords"
    /\ keywords' = extract_keywords(kw_text)
    /\ pc' = "returned extract_keywords"
    /\ UNCHANGED <<kw_text, postVars, tagVars, parseVars, splitVars, appVars>>

KeywordNext == ExtractKeywordsForImages \/ ExtractKeywordsForHashtags

(***************************************************************************)
(* parse_complex_result                                                    *)
(***************************************************************************)
\* \s, over the characters of the texts checked
WhiteSpace == {" ", "\n", "\t"}

IsDigit(c) == c \in Range(Digits)

\* the first position from i on whose character is not in chars, Len(s) + 1 if none
SkipWhile(s, i, chars) ==
    CHOOSE j \in i..(Len(s) + 1) :
        /\ j = Len(s) + 1 \/ s[j] \notin chars
        /\ \A k \in i..(j - 1) : s[k] \in chars

\* str.strip()
Strip(s) ==
    LET first == SkipWhile(s, 1, WhiteSpace)
        last == IF first > Len(s) THEN 0
                ELSE CHOOSE j \in first..Len(s) :
                        /\ s[j] \notin WhiteSpace
                        /\ \A k \in (j + 1)..Len(s) : s[k] \in WhiteSpace
    IN  SubSeq(s, first, last)

\* where a match of \n?\d+\.\s* that starts at i ends (the position after it),
\* 0 when there is none at i
MarkerEnd(s, i) ==
    LET d == IF s[i] = "\n" THEN i + 1 ELSE i
        dot == SkipWhile(s, d, Range(Digits))
    IN  IF d <= Len(s) /\ IsDigit(s[d]) /\ dot <= Len(s) /\ s[dot] = "."
        THEN SkipWhile(s, dot + 1, WhiteSpace)
        ELSE 0

\* line 687: re.sub(r"\n?\d+\.\s*", "\n", text), the matches taken left to right from i on
RECURSIVE Normalise(_, _)
Normalise(s, i) ==
    IF i > Len(s) THEN <<>>
    ELSE IF MarkerEnd(s, i) # 0 THEN <<"\n">> \o Normalise(s, MarkerEnd(s, i))
    ELSE <<s[i]>> \o Normalise(s, i + 1)

\* the keys of result, line 685
Keys == {<<"C", "a", "p", "t", "i", "o", "n">>, <<"P", "o", "s", "t", " ", "I", "d", "e", "a">>, <<"H", "a", "s", "h", "t", "a", "g", "s">>, <<"V", "i", "s", "u", "a", "l", "/", "D", "e", "s", "i", "g", "n", " ", "S", "u", "g", "g", "e", "s", "t", "i", "o", "n">>}

\* mutant: re.IGNORECASE left out
SearchKey_CaseSensitive(s, key) == Find(s, key)

\* re.search(key, s, re.IGNORECASE): where the leftmost match of key starts, 0 if none
SearchKey(s, key) == Find(Lower(s), Lower(key))

\* group(1) of the match of key[:\s]*([^\n]*) that starts at position at
Group1(s, key, at) ==
    LET from == SkipWhile(s, at + Len(key), WhiteSpace \cup {":"})
        to == SkipWhile(s, from, Range(s) \ {"\n"})
    IN  SubSeq(s, from, to - 1)

\* mutant: a key that is not found is given the text itself
FieldValue_TextWhenNoMatch(s, key) ==
    LET match == SearchKey(s, key)
    IN  IF match # 0 THEN Strip(Group1(s, key, match)) ELSE Strip(s)

\* lines 689-692: the value of result[key]
FieldValue(s, key) ==
    LET match == SearchKey(s, key)
    IN  IF match # 0 THEN Strip(Group1(s, key, match)) ELSE <<>>

\* lines 688-693
ParseFields(s) == [key \in Keys |-> FieldValue(s, key)]

parse_complex_result(t) == ParseFields(Normalise(t, 1))

(***************************************************************************)
(* Inputs of parse_complex_result                                          *)
(***************************************************************************)
MaxFragments == 3

Fragments == {<<"1", ".", " ", "C", "a", "p", "t", "i", "o", "n", ":", " ", "G", "r", "e", "a", "t", " ", "d", "a", "y", "\n">>,
              <<"2", ".", " ", "P", "o", "s", "t", " ", "I", "d", "e", "a", ":", " ", "G", "o", " ", "o", "u", "t", "s", "i", "d", "e", "\n">>,
              <<"3", ".", " ", "S", "u", "g", "g", "e", "s", "t", "e", "d", " ", "H", "a", "s", "h", "t", "a", "g", "s", ":", " ", "#", "s", "u", "n", ",", " ", "#", "f", "u", "n", "\n">>,
              <<"4", ".", " ", "V", "i", "s", "u", "a", "l", "/", "D", "e", "s", "i", "g", "n", " ", "S", "u", "g", "g", "e", "s", "t", "i", "o", "n", ":", "\n">>,
              <<"C", "A", "P", "T", "I", "O", "N", ":", " ", " ", "\n">>,
              <<"C", "a", "p", "t", "i", "o", "n", ":", " ", "v", "2", ".", "0", " ", "r", "o", "c", "k", "s", " ", "\n">>,
              <<"A", " ", "s", "u", "n", "n", "y", " ", "p", "h", "o", "t", "o">>,
              <<"\n", "1", "0", ".", " ", " ">>}

RECURSIVE ResultsOf(_)
ResultsOf(n) ==
    IF n = 0 THEN {<<>>}
    ELSE ResultsOf(n - 1) \cup {t \o fragment : t \in ResultsOf(n - 1), fragment \in Fragments}

ComplexResults == ResultsOf(MaxFragments)

NoFields == [key \in Keys |-> <<>>]

ParseIdle ==
    /\ complex_result = <<>>
    /\ normalised = <<>>
    /\ parsed = NoFields

ParseInit ==
    /\ pc = "parse_complex_result"
    /\ complex_result \in ComplexResults
    /\ normalised = <<>>
    /\ parsed = NoFields

\* lines 684-693
ParseComplexResult ==
    /\ pc = "parse_complex_result"
    /\ normalised' = Normalise(complex_result, 1)
    /\ parsed' = parse_complex_result(complex_result)
    /\ pc' = "returned parse_complex_result"
    /\ UNCHANGED <<complex_result, postVars, tagVars, kwVars, splitVars, appVars>>

ParseNext == ParseComplexResult

(***************************************************************************)
(* split_title_desc                                                        *)
(***************************************************************************)
\* the separators of line 654, in the order they are tried; the source file
\* spells its two dashes as the characters U+201A U+00C4 U+00EC and
\* U+201A U+00C4 U+00EE
separators == << <<":", " ">>, <<" ", "-", " ">>, <<" ", "U+201A", "U+00C4", "U+00EC", " ">>, <<" ", "U+201A", "U+00C4", "U+00EE", " ">>, <<".", " ">> >>

\* an optional value: None, or the value given
None == {}
Some(v) == {v}

\* line.split(sep, 1), sep in line
SplitOnce(s, sep) ==
    LET at == Find(s, sep)
    IN  <<SubSeq(s, 1, at - 1), SubSeq(s, at + Len(sep), Len(s))>>

\* the for loop of lines 654-657, from the k-th separator on
RECURSIVE SplitFrom(_, _)
SplitFrom(s, k) ==
    IF k > Len(separators) THEN <<Strip(s), None>>
    ELSE IF Contains(s, separators[k])
         THEN LET parts == SplitOnce(s, separators[k])
              IN  <<Strip(parts[1]), Some(Strip(parts[2]))>>
         ELSE SplitFrom(s, k + 1)

\* mutant: the split is made at the separator that comes first in the line
split_title_desc_EarliestSeparator(s) ==
    LET found == {k \in 1..Len(separators) : Contains(s, separators[k])}
    IN  IF found = {} THEN <<Strip(s), None>>
        ELSE LET first == CHOOSE k \in found :
                             \A j \in found : Find(s, separators[k]) <= Find(s, separators[j])
                 parts == SplitOnce(s, separators[first])
             IN  <<Strip(parts[1]), Some(Strip(parts[2]))>>

\* mutant: a line without separator is returned as it is
split_title_desc_NoStrip(s) ==
    IF \E k \in 1..Len(separators) : Contains(s, separators[k])
    THEN SplitFrom(s, 1)
    ELSE <<s, None>>

split_title_desc(s) == SplitFrom(s, 1)

(***************************************************************************)
(* Inputs of split_title_desc                                              *)
(***************************************************************************)
MaxParts == 3

Parts == {<<"A", "b">>, <<" ">>, <<":">>, <<"-">>, <<".">>} \cup Range(separators)

RECURSIVE LinesOf(_)
LinesOf(n) ==
    IF n = 0 THEN {<<>>}
    ELSE LinesOf(n - 1) \cup {t \o part : t \in LinesOf(n - 1), part \in Parts}

IdeaLines == LinesOf(MaxParts)

SplitIdle ==
    /\ line = <<>>
    /\ title_desc = <<<<>>, None>>

SplitInit ==
    /\ pc = "split_title_desc"
    /\ line \in IdeaLines
    /\ title_desc = <<<<>>, None>>

\* lines 652-658
SplitTitleDesc ==
    /\ pc = "split_title_desc"
    /\ title_desc' = split_title_desc(line)
    /\ pc' = "returned split_title_desc"
    /\ UNCHANGED <<line, postVars, tagVars, kwVars, parseVars, appVars>>

SplitNext == SplitTitleDesc

(***************************************************************************)
(* LLMService.generate_content (lines 354-376).  A JSON value is a record  *)
(* with its type and its content; evaluating a Python expression gives a   *)
(* value or raises, and what it raises is kept as the text str(e).         *)
(***************************************************************************)
JObject(members) == [t |-> "object", v |-> members]
JArray(items) == [t |-> "array", v |-> items]
JString(chars) == [t |-> "string", v |-> chars]
JNull == [t |-> "null", v |-> <<>>]

Ok(value) == [raised |-> FALSE, value |-> value]
Raise(message) == [raised |-> TRUE, value |-> JString(message)]

\* repr(key) of the keys of line 372, the text of a KeyError
KeyRepr == [choices |-> <<"'", "c", "h", "o", "i", "c", "e", "s", "'">>, message |-> <<"'", "m", "e", "s", "s", "a", "g", "e", "'">>, content |-> <<"'", "c", "o", "n", "t", "e", "n", "t", "'">>]

\* value[key] for a str key
GetKey(value, key) ==
    CASE value.t = "object" ->
            IF key \in DOMAIN value.v THEN Ok(value.v[key]) ELSE Raise(KeyRepr[key])
      [] value.t = "array" -> Raise(<<"l", "i", "s", "t", " ", "i", "n", "d", "i", "c", "e", "s", " ", "m", "u", "s", "t", " ", "b", "e", " ", "i", "n", "t", "e", "g", "e", "r", "s", " ", "o", "r", " ", "s", "l", "i", "c", "e", "s", ",", " ", "n", "o", "t", " ", "s", "t", "r">>)
      [] value.t = "string" -> Raise(<<"s", "t", "r", "i", "n", "g", " ", "i", "n", "d", "i", "c", "e", "s", " ", "m", "u", "s", "t", " ", "b", "e", " ", "i", "n", "t", "e", "g", "e", "r", "s", ",", " ", "n", "o", "t", " ", "'", "s", "t", "r", "'">>)
      [] value.t = "null" -> Raise(<<"'", "N", "o", "n", "e", "T", "y", "p", "e", "'", " ", "o", "b", "j", "e", "c", "t", " ", "i", "s", " ", "n", "o", "t", " ", "s", "u", "b", "s", "c", "r", "i", "p", "t", "a", "b", "l", "e">>)

\* value[0]
GetFirst(value) ==
    CASE value.t = "object" -> Raise(<<"0">>)
      [] value.t = "array" ->
            IF value.v # <<>> THEN Ok(value.v[1]) ELSE Raise(<<"l", "i", "s", "t", " ", "i", "n", "d", "e", "x", " ", "o", "u", "t", " ", "o", "f", " ", "r", "a", "n", "g", "e">>)
      [] value.t = "string" ->
            IF value.v # <<>> THEN Ok(JString(<<value.v[1]>>)) ELSE Raise(<<"s", "t", "r", "i", "n", "g", " ", "i", "n", "d", "e", "x", " ", "o", "u", "t", " ", "o", "f", " ", "r", "a", "n", "g", "e">>)
      [] value.t = "null" -> Raise(<<"'", "N", "o", "n", "e", "T", "y", "p", "e", "'", " ", "o", "b", "j", "e", "c", "t", " ", "i", "s", " ", "n", "o", "t", " ", "s", "u", "b", "s", "c", "r", "i", "p", "t", "a", "b", "l", "e">>)

\* response.json()["choices"][0]["message"]["content"]
MessageContent(resp) ==
    LET body == resp.json
        choices == GetKey(body.value, "choices")
        first == GetFirst(choices.value)
        message == GetKey(first.value, "message")
    IN  IF body.raised THEN body
        ELSE IF choices.raised THEN choices
        ELSE IF first.raised THEN first
        ELSE IF message.raised THEN message
        ELSE GetKey(message.value, "content")

ErrorPrefix == <<"E", "r", "r", "o", "r", ":", " ">>

\* lines 361-368
RequestOf(api_key, text) ==
    [url |-> "https://openrouter.ai/api/v1/chat/completions",
     authorization |-> <<"B", "e", "a", "r", "e", "r", " ">> \o api_key,
     model |-> "deepseek/deepseek-chat-v3-0324",
     messages |-> <<[role |-> "user", content |-> text]>>,
     timeout |-> 30]

\* mutant: only what requests.post raises is caught
generate_content_CatchesRequestErrorsOnly(outcome) ==
    IF outcome.kind = "exception" THEN Ok(JString(ErrorPrefix \o outcome.message))
    ELSE IF outcome.status_code = 200 THEN MessageContent(outcome)
    ELSE Ok(JString(ErrorPrefix \o outcome.text))

\* lines 369-376, for what requests.post did
generate_content(outcome) ==
    IF outcome.kind = "exception" THEN Ok(JString(ErrorPrefix \o outcome.message))
    ELSE IF outcome.status_code = 200
    THEN LET content == MessageContent(outcome)
         IN  IF content.raised THEN Ok(JString(ErrorPrefix \o content.value.v))
             ELSE content
    ELSE Ok(JString(ErrorPrefix \o outcome.text))

\* a body as the API documents it
Completion(chars) ==
    JObject([choices |-> JArray(<<JObject([message |-> JObject([content |-> JString(chars)])])>>)])

Contents == {<<"T", "w", "i", "t", "t", "e", "r", ":", " ", "C", "o", "f", "f", "e", "e", " ", "t", "i", "m", "e">>, <<>>, <<"E", "r", "r", "o", "r", ":", " ", "n", "o", "n", "e">>}

\* bodies of a response: completions, and JSON without the fields of line 372
Bodies ==
    {Completion(c) : c \in Contents}
    \cup {JObject([choices |-> JArray(<<JObject([message |-> JObject([content |-> JNull])])>>)]),
          JObject([error |-> JString(<<"R", "a", "t", "e", " ", "l", "i", "m", "i", "t", " ", "e", "x", "c", "e", "e", "d", "e", "d">>)]),
          JObject([choices |-> JArray(<<>>)]),
          JObject([choices |-> JNull]),
          JObject([choices |-> JString(<<"n", "o", "n", "e">>)]),
          JObject([choices |-> JObject([message |-> JString(<<"H", "i">>)])]),
          JObject([choices |-> JArray(<<JObject([text |-> JString(<<"H", "i">>)])>>)]),
          JObject([choices |-> JArray(<<JObject([message |-> JString(<<"H", "i">>)])>>)]),
          JObject([choices |-> JArray(<<JObject([message |-> JObject([role |-> JString(<<"a", "s", "s", "i", "s", "t", "a", "n", "t">>)])])>>)]),
          JArray(<<>>),
          JString(<<>>),
          JNull}

StatusCodes == {200, 401, 429, 500}

BodyTexts == {<<>>, <<"U", "n", "a", "u", "t", "h", "o", "r", "i", "z", "e", "d">>}

\* what requests.post does: it raises, or it returns a response
Outcomes ==
    {[kind |-> "exception", message |-> m] :
        m \in {<<>>, <<"R", "e", "a", "d", " ", "t", "i", "m", "e", "d", " ", "o", "u", "t", ".", " ", "(", "r", "e", "a", "d", " ", "t", "i", "m", "e", "o", "u", "t", "=", "3", "0", ")">>, <<"C", "o", "n", "n", "e", "c", "t", "i", "o", "n", " ", "a", "b", "o", "r", "t", "e", "d", ".">>}}
    \cup {[kind |-> "response", status_code |-> s, text |-> x, json |-> Ok(b)] :
            s \in StatusCodes, x \in BodyTexts, b \in Bodies}
    \cup {[kind |-> "response", status_code |-> s, text |-> x,
           json |-> Raise(<<"E", "x", "p", "e", "c", "t", "i", "n", "g", " ", "v", "a", "l", "u", "e", ":", " ", "l", "i", "n", "e", " ", "1", " ", "c", "o", "l", "u", "m", "n", " ", "1", " ", "(", "c", "h", "a", "r", " ", "0", ")">>)] :
            s \in StatusCodes, x \in BodyTexts}

ApiKeys == {<<"s", "k", "-", "o", "r", "-", "v", "1">>, <<" ">>}

Prompts == {<<"G", "e", "n", "e", "r", "a", "t", "e", " ", "a", " ", "p", "o", "s", "t", " ", "a", "b", "o", "u", "t", " ", "c", "o", "f", "f", "e", "e">>, <<>>}

NoOutcome == [kind |-> "none"]

NoResult == [raised |-> FALSE, value |-> JNull]

LlmIdle ==
    /\ service_api_key = <<>>
    /\ prompt = <<>>
    /\ http_request = RequestOf(<<>>, <<>>)
    /\ response = NoOutcome
    /\ llm_result = NoResult

LlmInit ==
    /\ pc = "generate_content"
    /\ service_api_key \in ApiKeys
    /\ prompt \in Prompts
    /\ http_request = RequestOf(<<>>, <<>>)
    /\ response = NoOutcome
    /\ llm_result = NoResult

GenerateContent ==
    /\ pc = "generate_content"
    /\ http_request' = RequestOf(service_api_key, prompt)
    /\ \E outcome \in Outcomes :
          /\ response' = outcome
          /\ llm_result' = generate_content(outcome)
    /\ pc' = IF llm_result'.raised THEN "raised generate_content" ELSE "returned generate_content"
    /\ UNCHANGED <<service_api_key, prompt, coreVars, repoVars, sessionVars>>

LlmNext == GenerateContent

(***************************************************************************)
(* SocialMediaPost, UserSettings and PostRepository (lines 12-350).  The   *)
(* two tables are sets of rows; the list columns hold the JSON text that   *)
(* json.dumps writes and json.loads reads back.                            *)
(***************************************************************************)
QuoteChar == "\""
BackslashChar == "\\"

\* a str inside json.dumps: quoted, quote and backslash escaped
JsonString(chars) ==
    LET Escaped(c) == IF c = QuoteChar \/ c = BackslashChar THEN <<BackslashChar, c>> ELSE <<c>>
        Body[i \in 0..Len(chars)] == IF i = 0 THEN <<>> ELSE Body[i - 1] \o Escaped(chars[i])
    IN  <<QuoteChar>> \o Body[Len(chars)] \o <<QuoteChar>>

\* json.dumps of a list of str
JsonDumps(list) ==
    LET Items[i \in 0..Len(list)] ==
            IF i = 0 THEN <<>>
            ELSE IF i = 1 THEN JsonString(list[1])
            ELSE Items[i - 1] \o <<",", " ">> \o JsonString(list[i])
    IN  <<"[">> \o Items[Len(list)] \o <<"]">>

RECURSIVE LoadItems(_, _, _, _, _)
\* the strings of a JSON list, read from position i; item is the string under way
LoadItems(text, i, item, inside, items) ==
    IF i > Len(text) THEN items
    ELSE IF ~inside
    THEN IF text[i] = QuoteChar THEN LoadItems(text, i + 1, <<>>, TRUE, items)
         ELSE LoadItems(text, i + 1, item, FALSE, items)
    ELSE IF text[i] = BackslashChar THEN LoadItems(text, i + 2, Append(item, text[i + 1]), TRUE, items)
    ELSE IF text[i] = QuoteChar THEN LoadItems(text, i + 1, <<>>, FALSE, Append(items, item))
    ELSE LoadItems(text, i + 1, Append(item, text[i]), TRUE, items)

\* json.loads of the text of a list of str
JsonLoads(text) == LoadItems(text, 1, <<>>, FALSE, <<>>)

\* SocialMediaPost(...) with __post_init__; now is datetime.now().isoformat()
SocialMediaPost(id, text, hashtags, platform, tone, content_type, timestamp, now) ==
    [id |-> id,
     text |-> text,
     hashtags |-> IF hashtags = None THEN <<>> ELSE CHOOSE l \in hashtags : TRUE,
     platform |-> platform,
     tone |-> tone,
     content_type |-> content_type,
     timestamp |-> IF timestamp = <<>> THEN now ELSE timestamp]

DefaultPlatforms == << <<"F", "a", "c", "e", "b", "o", "o", "k">>, <<"T", "w", "i", "t", "t", "e", "r">> >>

\* UserSettings(...) with __post_init__
UserSettings(default_tone, default_platforms, api_key) ==
    [default_tone |-> default_tone,
     default_platforms |-> IF default_platforms = None THEN DefaultPlatforms
                           ELSE CHOOSE l \in default_platforms : TRUE,
     api_key |-> api_key]

\* UserSettings()
DefaultSettings == UserSettings("professional", None, <<>>)

\* the row save_post inserts, lines 278-288
PostRow(id, post) ==
    [id |-> id,
     text |-> post.text,
     hashtags |-> JsonDumps(post.hashtags),
     platform |-> post.platform,
     tone |-> post.tone,
     content_type |-> post.content_type,
     timestamp |-> post.timestamp]

\* the object get_all_posts makes of a row, lines 302-310
PostOfRow(row, now) ==
    SocialMediaPost(Some(row.id), row.text,
                    IF row.hashtags # <<>> THEN Some(JsonLoads(row.hashtags)) ELSE Some(<<>>),
                    row.platform, row.tone, row.content_type, row.timestamp, now)

\* the characters of an isoformat() text in the order of their code points
CharCode == [c \in {"-", ".", "0", "1", "2", "3", "4", "5", "6", "7", "8", "9", ":", "T"} |->
                CASE c = "-" -> 45 [] c = "." -> 46 [] c = "0" -> 48 [] c = "1" -> 49
                  [] c = "2" -> 50 [] c = "3" -> 51 [] c = "4" -> 52 [] c = "5" -> 53
                  [] c = "6" -> 54 [] c = "7" -> 55 [] c = "8" -> 56 [] c = "9" -> 57
                  [] c = ":" -> 58 [] c = "T" -> 84]

\* a < b as SQLite compares two TEXT values
TextLess(a, b) ==
    \E i \in 1..(Min(Len(a), Len(b)) + 1) :
        /\ \A j \in 1..(i - 1) : a[j] = b[j]
        /\ \/ i > Len(a) /\ i <= Len(b)
           \/ i <= Len(a) /\ i <= Len(b) /\ CharCode[a[i]] < CharCode[b[i]]

\* mutant: the rows are read in ascending order of timestamp
SelectAllPosts_Ascending(table) ==
    {order \in [1..Cardinality(table) -> table] :
        /\ \A i, j \in 1..Cardinality(table) : i # j => order[i] # order[j]
        /\ \A i, j \in 1..Cardinality(table) :
              i < j => ~TextLess(order[j].timestamp, order[i].timestamp)}

\* SELECT * FROM posts ORDER BY timestamp DESC: every row once, rows of equal
\* timestamp in any order
SelectAllPosts(table) ==
    {order \in [1..Cardinality(table) -> table] :
        /\ \A i, j \in 1..Cardinality(table) : i # j => order[i] # order[j]
        /\ \A i, j \in 1..Cardinality(table) :
              i < j => ~TextLess(order[i].timestamp, order[j].timestamp)}

\* the row save_settings writes, lines 326-333
SettingsRow(settings) ==
    [id |-> 1,
     default_tone |-> settings.default_tone,
     default_platforms |-> JsonDumps(settings.default_platforms),
     api_key |-> settings.api_key]

\* mutant: a plain INSERT, the row takes the next free id
save_settings_Insert(table, settings) ==
    table \cup {[SettingsRow(settings) EXCEPT !.id = Cardinality(table) + 1]}

\* INSERT OR REPLACE of the row with id 1
save_settings(table, settings) ==
    {row \in table : row.id # 1} \cup {SettingsRow(settings)}

\* load_settings, lines 340-350
load_settings(table) ==
    IF \E row \in table : row.id = 1
    THEN LET row == CHOOSE r \in table : r.id = 1
         IN  UserSettings(row.default_tone,
                          IF row.default_platforms # <<>>
                          THEN Some(JsonLoads(row.default_platforms))
                          ELSE Some(DefaultPlatforms),
                          row.api_key)
    ELSE DefaultSettings

\* datetime.now().isoformat(): with and without microseconds
EarlyStamp == <<"2", "0", "2", "5", "-", "0", "6", "-", "0", "1", "T", "0", "9", ":", "5", "9", ":", "5", "9", ".", "9", "9", "9", "9", "9", "9">>
WholeSecondStamp == <<"2", "0", "2", "5", "-", "0", "6", "-", "0", "1", "T", "1", "0", ":", "0", "0", ":", "0", "0">>
LateStamp == <<"2", "0", "2", "5", "-", "0", "6", "-", "0", "1", "T", "1", "0", ":", "0", "0", ":", "0", "0", ".", "0", "0", "0", "2", "5", "0">>
Stamps == {EarlyStamp, WholeSecondStamp, LateStamp}

\* the posts handed to save_post: built as line 609 builds them, without id and timestamp
PostInputs ==
    {SocialMediaPost(None, <<"C", "o", "f", "f", "e", "e", " ", "t", "i", "m", "e", "!">>, Some(<< <<"#", "c", "o", "f", "f", "e", "e">>, <<"#", "s", "a", "y", "\"", "h", "i", "\"">> >>), "Twitter", "casual", "promotional", <<>>, now) :
        now \in {WholeSecondStamp, LateStamp}}
    \cup {SocialMediaPost(None, <<"T", "e", "a", ".">>, None, "LinkedIn", "professional", "informative", <<>>, now) :
            now \in {EarlyStamp, WholeSecondStamp}}

MaxPosts == 3

SettingsInputs ==
    {UserSettings(tone, platforms, key) :
        tone \in {"professional", "casual", "humorous", "empathetic"},
        platforms \in {None, Some(<<>>), Some(<< <<"T", "w", "i", "t", "t", "e", "r">> >>), Some(<< <<"L", "i", "n", "k", "e", "d", "I", "n">>, <<"I", "n", "s", "t", "a", "g", "r", "a", "m">> >>),
                       Some(<< <<"F", "a", "c", "e", "b", "o", "o", "k">>, <<"T", "w", "i", "t", "t", "e", "r">>, <<"I", "n", "s", "t", "a", "g", "r", "a", "m">>, <<"L", "i", "n", "k", "e", "d", "I", "n">> >>)},
        key \in {<<>>, <<" ">>, <<"s", "k", "-", "o", "r", "-", "v", "1">>}}

RepoIdle ==
    /\ posts = {}
    /\ last_id = 0
    /\ user_settings = {}
    /\ repo_returned = None
    /\ saved_posts = <<>>
    /\ deleted_ids = {}
    /\ last_settings = None

\* PostRepository() on a new database file
RepoInit ==
    /\ pc = "PostRepository"
    /\ RepoIdle

\* save_post, lines 274-290
SavePost ==
    /\ last_id < MaxPosts
    /\ \E post \in PostInputs :
          /\ posts' = posts \cup {PostRow(last_id + 1, post)}
          /\ saved_posts' = Append(saved_posts, post)
    /\ last_id' = last_id + 1
    /\ repo_returned' = Some(last_id + 1)
    /\ pc' = "returned save_post"
    /\ UNCHANGED <<user_settings, deleted_ids, last_settings, coreVars, llmVars, sessionVars>>

\* delete_post, lines 315-320
DeletePost ==
    /\ \E post_id \in 1..MaxPosts :
          /\ posts' = {row \in posts : row.id # post_id}
          /\ deleted_ids' = IF post_id <= last_id THEN deleted_ids \cup {post_id} ELSE deleted_ids
    /\ repo_returned' = None
    /\ pc' = "returned delete_post"
    /\ UNCHANGED <<last_id, user_settings, saved_posts, last_settings, coreVars, llmVars, sessionVars>>

\* get_all_posts, lines 292-313
GetAllPosts ==
    /\ \E rows \in SelectAllPosts(posts), now \in Stamps :
          repo_returned' = Some([i \in 1..Len(rows) |-> PostOfRow(rows[i], now)])
    /\ pc' = "returned get_all_posts"
    /\ UNCHANGED <<posts, last_id, user_settings, saved_posts, deleted_ids, last_settings, coreVars, llmVars, sessionVars>>

PostsNext == SavePost \/ DeletePost \/ GetAllPosts

\* save_settings, lines 322-334
SaveSettings ==
    /\ \E settings \in SettingsInputs :
          /\ user_settings' = save_settings(user_settings, settings)
          /\ last_settings' = Some(settings)
    /\ repo_returned' = None
    /\ pc' = "returned save_settings"
    /\ UNCHANGED <<posts, last_id, saved_posts, deleted_ids, coreVars, llmVars, sessionVars>>

\* load_settings, lines 336-350
LoadSettings ==
    /\ repo_returned' = Some(load_settings(user_settings))
    /\ pc' = "returned load_settings"
    /\ UNCHANGED <<posts, last_id, user_settings, saved_posts, deleted_ids, last_settings, coreVars, llmVars, sessionVars>>

SettingsNext == SaveSettings \/ LoadSettings

(***************************************************************************)
(* The session: main (lines 436-449), the settings form (lines 789-796)    *)
(* and generate_comprehensive_content (lines 533-642).  Of the generation  *)
(* the state keeps the posts, the branch each block took and the remote    *)
(* calls made; the hashtags, image ideas and caption texts are those of    *)
(* the components above.                                                   *)
(***************************************************************************)
\* LLMService(api_key), lines 355-358
LLMService(api_key) == [api_key |-> api_key]

\* mutant: the service object is made whatever the key
ServiceFor_AnyKey(api_key) == Some(LLMService(api_key))

\* LLMService(api_key) if api_key else None
ServiceFor(api_key) == IF api_key # <<>> THEN Some(LLMService(api_key)) ELSE None

\* use_llm and st.session_state.llm_service
UsesLlm(use_llm, state) == use_llm /\ state.llm_service # None

\* the platform names as the multiselect of line 494 gives them
PlatformText ==
    [Facebook |-> <<"F", "a", "c", "e", "b", "o", "o", "k">>, Twitter |-> <<"T", "w", "i", "t", "t", "e", "r">>, Instagram |-> <<"I", "n", "s", "t", "a", "g", "r", "a", "m">>, LinkedIn |-> <<"L", "i", "n", "k", "e", "d", "I", "n">>]

\* text.find(sub, start) + 1 for start counted from 1, 0 when absent
FindFrom(text, sub, start) ==
    IF \E i \in start..(Len(text) - Len(sub) + 1) : OccursAt(text, sub, i)
    THEN CHOOSE i \in start..(Len(text) - Len(sub) + 1) :
            /\ OccursAt(text, sub, i)
            /\ \A j \in start..(i - 1) : ~OccursAt(text, sub, j)
    ELSE 0

\* lines 542-548: the post of a platform cut out of the text returned
PostFromAi(platform, content) ==
    IF Contains(content, platform)
    THEN LET start == Find(content, platform)
             end == FindFrom(content, <<"\n">>, start)
         IN  IF end > start
             THEN Strip(SubSeq(content, start + Len(platform), end - 1))
             ELSE Strip(SubSeq(content, start + Len(platform), Len(content)))
    ELSE content

\* lines 541-548, for platforms that are the keys of PlatformText
PostsFromAi(platforms, content) ==
    [platform \in Range(platforms) |-> PostFromAi(PlatformText[platform], content)]

\* lines 550-554: choice[platform] is what random.choice picks for the platform
PostsFromTemplates(req, choice) ==
    [platform \in Range(req.platforms) |->
        generate_text_post(TemplatesFor(req.content_type)[choice[platform]],
                           req.topic, platform, req.tone, req.cta)]

LongLine == Rep("a", 280)

\* what the remote model may write for the posts
AiContents ==
    {<<"T", "w", "i", "t", "t", "e", "r", ":", " ", "C", "o", "f", "f", "e", "e", " ", "t", "i", "m", "e", "\n", "F", "a", "c", "e", "b", "o", "o", "k", ":", " ", "M", "o", "r", "e", " ", "c", "o", "f", "f", "e", "e">>,
     <<"T", "w", "i", "t", "t", "e", "r", ":", " ">> \o LongLine,
     <<"H", "e", "r", "e", " ", "i", "s", " ", "y", "o", "u", "r", " ", "p", "o", "s", "t", ":", " ">> \o LongLine}

\* what requests.post does in a generation: a time-out, a rejected key, a
\* completion, a completion whose content is null
SessionOutcomes ==
    {[kind |-> "exception", message |-> <<"R", "e", "a", "d", " ", "t", "i", "m", "e", "d", " ", "o", "u", "t", ".", " ", "(", "r", "e", "a", "d", " ", "t", "i", "m", "e", "o", "u", "t", "=", "3", "0", ")">>],
     [kind |-> "response", status_code |-> 401, text |-> <<"U", "n", "a", "u", "t", "h", "o", "r", "i", "z", "e", "d">>,
      json |-> Ok(JObject([error |-> JString(<<"U", "n", "a", "u", "t", "h", "o", "r", "i", "z", "e", "d">>)]))],
     [kind |-> "response", status_code |-> 200, text |-> <<>>,
      json |-> Ok(JObject([choices |-> JArray(<<JObject([message |-> JObject([content |-> JNull])])>>)]))]}
    \cup {[kind |-> "response", status_code |-> 200, text |-> <<>>, json |-> Ok(Completion(c))] :
            c \in AiContents}

\* what generate_content returns to the posts block
ReturnedContents == {generate_content(outcome).value : outcome \in SessionOutcomes}

\* what generate_content returns to the other three blocks: a text, or None
ReturnedOthers == {JString(<<"E", "r", "r", "o", "r", ":", " ", "R", "e", "a", "d", " ", "t", "i", "m", "e", "d", " ", "o", "u", "t", ".", " ", "(", "r", "e", "a", "d", " ", "t", "i", "m", "e", "o", "u", "t", "=", "3", "0", ")">>), JNull}

\* the arguments of generate_comprehensive_content
GenRequests ==
    [topic : {<<"c", "o", "f", "f", "e", "e">>, <<" ">>, Rep("a", 300)},
     content_type : {"promotional"},
     platforms : {<<>>, <<"Twitter">>, <<"Facebook", "Twitter">>},
     tone : {"professional", "humorous"},
     cta : {<<>>},
     use_llm : BOOLEAN]

NoGenRequest == [topic |-> <<>>, content_type |-> "", platforms |-> <<>>, tone |-> "", cta |-> <<>>, use_llm |-> FALSE]

NoBlocks == [posts |-> "", image_ideas |-> "", caption |-> "", hashtags |-> ""]

\* the settings the form of the settings page submits
FormSettings ==
    {UserSettings("casual", Some(<< <<"T", "w", "i", "t", "t", "e", "r">> >>), key) : key \in {<<>>, <<" ">>, <<"s", "k", "-", "o", "r", "-", "v", "1">>}}

SessionIdle ==
    /\ session_state = <<>>
    /\ gen_request = NoGenRequest
    /\ ai_content = JNull
    /\ generated_posts = <<>>
    /\ blocks = NoBlocks
    /\ remote_calls = <<>>

\* a new session: the database is new or was left by an earlier session
SessionInit ==
    /\ pc = "main"
    /\ SessionIdle
    /\ posts = {}
    /\ last_id = 0
    /\ user_settings \in {{}} \cup {save_settings({}, settings) : settings \in FormSettings}
    /\ repo_returned = None
    /\ saved_posts = <<>>
    /\ deleted_ids = {}
    /\ last_settings = None

\* main, lines 444-446: the script runs again at each interaction, before the
\* page handles it; what the run before generated is gone
Main ==
    /\ session_state' =
          IF "llm_service" \notin DOMAIN session_state
          THEN [llm_service |-> ServiceFor(load_settings(user_settings).api_key)]
          ELSE session_state
    /\ gen_request' = NoGenRequest
    /\ ai_content' = JNull
    /\ generated_posts' = <<>>
    /\ blocks' = NoBlocks
    /\ remote_calls' = <<>>
    /\ pc' = "page"
    /\ UNCHANGED <<coreVars, llmVars, repoVars>>

\* settings_page, lines 789-796: the form submitted
SubmitSettings ==
    /\ pc = "page"
    /\ \E settings \in FormSettings :
          /\ user_settings' = save_settings(user_settings, settings)
          /\ last_settings' = Some(settings)
          /\ session_state' = [session_state EXCEPT !.llm_service = ServiceFor(settings.api_key)]
    /\ pc' = "settings saved"
    /\ UNCHANGED <<posts, last_id, repo_returned, saved_posts, deleted_ids,
                   gen_request, ai_content, generated_posts, blocks, remote_calls, coreVars, llmVars>>

\* the button of line 515 with a blank topic: line 519
RejectBlankTopic ==
    /\ pc = "page"
    /\ \E req \in GenRequests :
          /\ Strip(req.topic) = <<>>
          /\ gen_request' = req
    /\ ai_content' = JNull
    /\ generated_posts' = <<>>
    /\ blocks' = NoBlocks
    /\ remote_calls' = <<>>
    /\ pc' = "no topic"
    /\ UNCHANGED <<session_state, coreVars, llmVars, repoVars>>

\* generate_comprehensive_content without the service, lines 549-554, 570-578,
\* 592-597, 632-642
GenerateFromTemplates ==
    /\ pc = "page"
    /\ \E req \in GenRequests :
          /\ Strip(req.topic) # <<>>
          /\ ~UsesLlm(req.use_llm, session_state)
          /\ gen_request' = req
          /\ \E choice \in [Range(req.platforms) -> 1..3] :
                generated_posts' = PostsFromTemplates(req, choice)
    /\ ai_content' = JNull
    /\ blocks' = [posts |-> "template", image_ideas |-> "template", caption |-> "template", hashtags |-> "template"]
    /\ remote_calls' = <<>>
    /\ pc' = "generated"
    /\ UNCHANGED <<session_state, coreVars, llmVars, repoVars>>

\* the call of llm_service.generate_content made for a block
RemoteCall(block) == [block |-> block, service |-> session_state.llm_service]

\* generate_comprehensive_content with the service, lines 538-548, 560-568,
\* 581-591, 622-631: four remote calls; a returned value that is no str makes
\* the code that reads it raise: the posts loop, split, re.findall, re.sub
GenerateWithLlm ==
    /\ pc = "page"
    /\ \E req \in GenRequests :
          /\ Strip(req.topic) # <<>>
          /\ UsesLlm(req.use_llm, session_state)
          /\ gen_request' = req
          /\ \E content \in ReturnedContents, ideas, caption, hashtags \in ReturnedOthers :
                LET posts_raise == content.t # "string" /\ req.platforms # <<>>
                    ideas_raise == ideas.t # "string"
                    late_raise == hashtags.t # "string" \/ caption.t # "string"
                IN  /\ ai_content' = content
                    /\ generated_posts' =
                          IF content.t = "string" THEN PostsFromAi(req.platforms, content.v) ELSE <<>>
                    /\ remote_calls' =
                          IF posts_raise THEN <<RemoteCall("posts")>>
                          ELSE IF ideas_raise THEN <<RemoteCall("posts"), RemoteCall("image_ideas")>>
                          ELSE <<RemoteCall("posts"), RemoteCall("image_ideas"),
                                 RemoteCall("caption"), RemoteCall("hashtags")>>
                    /\ blocks' =
                          IF posts_raise THEN [NoBlocks EXCEPT !.posts = "llm"]
                          ELSE IF ideas_raise THEN [NoBlocks EXCEPT !.posts = "llm", !.image_ideas = "llm"]
                          ELSE [posts |-> "llm", image_ideas |-> "llm", caption |-> "llm", hashtags |-> "llm"]
                    /\ pc' = IF posts_raise \/ ideas_raise \/ late_raise
                             THEN "raised generate_comprehensive_content" ELSE "generated"
    /\ UNCHANGED <<session_state, coreVars, llmVars, repoVars>>

SessionNext == Main \/ SubmitSettings \/ RejectBlankTopic \/ GenerateFromTemplates \/ GenerateWithLlm

(***************************************************************************)
(* Specifications                                                          *)
(***************************************************************************)
\* generate_text_post
CoreIdle == PostIdle /\ TagIdle /\ KwIdle /\ ParseIdle /\ SplitIdle

AppIdle == LlmIdle /\ RepoIdle /\ SessionIdle

Init == PostInit /\ TagIdle /\ KwIdle /\ ParseIdle /\ SplitIdle /\ AppIdle

Next == GenerateTextPost

Spec == Init /\ [][Next]_vars

\* suggest_hashtags
InitHashtags == HashtagInit /\ PostIdle /\ KwIdle /\ ParseIdle /\ SplitIdle /\ AppIdle

HashtagSpec == InitHashtags /\ [][HashtagNext]_vars

\* the two keyword extractors
InitKeywords == KwInit /\ PostIdle /\ TagIdle /\ ParseIdle /\ SplitIdle /\ AppIdle

KeywordSpec == InitKeywords /\ [][KeywordNext]_vars

\* parse_complex_result
InitParse == ParseInit /\ PostIdle /\ TagIdle /\ KwIdle /\ SplitIdle /\ AppIdle

ParseSpec == InitParse /\ [][ParseNext]_vars

\* split_title_desc
InitSplit == SplitInit /\ PostIdle /\ TagIdle /\ KwIdle /\ ParseIdle /\ AppIdle

SplitSpec == InitSplit /\ [][SplitNext]_vars

\* LLMService.generate_content on its own
InitLlm == LlmInit /\ CoreIdle /\ RepoIdle /\ SessionIdle

LlmSpec == InitLlm /\ [][LlmNext]_vars

\* the posts table under save_post, delete_post and get_all_posts
InitPosts == RepoInit /\ CoreIdle /\ LlmIdle /\ SessionIdle

PostsSpec == InitPosts /\ [][PostsNext]_vars

\* the settings table under save_settings and load_settings
InitSettings == RepoInit /\ CoreIdle /\ LlmIdle /\ SessionIdle

SettingsSpec == InitSettings /\ [][SettingsNext]_vars

\* one session: main, the settings form and the generation button
InitSession == SessionInit /\ CoreIdle /\ LlmIdle

SessionSpec == InitSession /\ [][SessionNext]_vars

(***************************************************************************)
(* Claims about generate_text_post                                         *)
(***************************************************************************)
StatedLimit(platform) ==
    CASE platform = "Twitter" -> 280
      [] platform = "Facebook" -> 2000
      [] platform = "Instagram" -> 2200
      [] platform = "LinkedIn" -> 3000
      [] OTHER -> 2000

Untruncated == Composed(base_template, request.topic, request.tone, request.cta)

\* C1: whatever the topic, content type, tone, cta and platform (known or not),
\* the returned text is no longer than the platform's limit.
C1_LengthWithinLimit ==
    pc = "returned" => Len(generated_text) <= StatedLimit(request.platform)

\* a call whose text was over the limit and came back cut to exactly the limit,
\* on the platform with the smallest limit and on an unknown platform
C1_Witness ==
    /\ pc = "returned"
    /\ request.platform = "Mastodon"
    /\ Len(Untruncated) > StatedLimit(request.platform)
    /\ Len(generated_text) = StatedLimit(request.platform)
    /\ OccursAt(generated_text, Ellipsis, Len(generated_text) - 2)

\* C10: with tone professional and no cta the returned text holds no '!'.
C10_ProfessionalNoBang ==
    (pc = "returned" /\ request.tone = "professional" /\ request.cta = <<>>)
        => \A i \in 1..Len(generated_text) : generated_text[i] # "!"

\* a professional call without cta whose template and topic both hold a '!'
C10_Witness ==
    /\ pc = "returned"
    /\ request.tone = "professional"
    /\ request.cta = <<>>
    /\ Contains(base_template, <<"!">>)
    /\ Contains(request.topic, <<"!">>)
    /\ Contains(generated_text, ReplaceChar(request.topic, "!", "."))

Filled == Format(base_template, request.topic)

\* C11: replacing '!' by '.' as the professional tone does is idempotent: done
\* twice on a text it gives what it gives done once.
C11_ProfessionalIdempotent ==
    pc = "returned" =>
        LET once == ApplyTone(Filled, "professional") \o <<>>
        IN  ApplyTone(once, "professional") = once

\* a filled template that the professional tone changes
C11_Witness ==
    /\ pc = "returned"
    /\ Contains(Filled, <<"!">>)
    /\ ApplyTone(Filled, "professional") # Filled
    /\ ~Contains(ApplyTone(Filled, "professional"), <<"!">>)

InformativePool == {content_templates.informative[k] : k \in 1..3}

\* C13: an unknown content_type takes its template from the informative pool and
\* an unknown platform is given the limit 2000; the call returns in both cases.
C13_UnknownValuesFallBack ==
    pc = "returned" =>
        /\ request.content_type \notin {"promotional", "informative", "question"}
              => base_template \in InformativePool
        /\ request.platform \notin {"Twitter", "Facebook", "Instagram", "LinkedIn"}
              => generated_text = IF Len(Untruncated) > 2000
                                  THEN Prefix(Untruncated, 1997) \o Ellipsis
                                  ELSE Untruncated

\* a call with an unknown content type and an unknown platform whose text is
\* longer than 2000 and comes back 2000 long
C13_Witness ==
    /\ pc = "returned"
    /\ request.content_type = "announcement"
    /\ request.platform = "Mastodon"
    /\ base_template \in InformativePool
    /\ Len(Untruncated) > 2000
    /\ Len(generated_text) = 2000

TonedText ==
    IF request.tone = "humorous" THEN Filled \o HumorousSuffix
    ELSE IF request.tone = "professional" THEN ReplaceChar(Filled, "!", ".")
    ELSE Filled

TonedTextWithCta ==
    IF request.cta = <<>> THEN TonedText ELSE TonedText \o <<" ">> \o request.cta

\* C17: when nothing is cut, the text returned is the tone-processed template
\* text followed, for a cta that is not empty, by one space and the cta as it
\* was given (after the humorous suffix, untouched by the professional
\* replacement), and by nothing for an empty cta.
C17_CtaAfterTone ==
    (pc = "returned" /\ Len(TonedTextWithCta) <= StatedLimit(request.platform))
        => generated_text = TonedTextWithCta

\* a professional call whose cta keeps its '!' at the end of the text
C17_Witness ==
    /\ pc = "returned"
    /\ request.tone = "professional"
    /\ request.cta = <<"S", "h", "o", "p", " ", "N", "o", "w", "!">>
    /\ Len(TonedTextWithCta) <= StatedLimit(request.platform)
    /\ OccursAt(generated_text, <<" ", "S", "h", "o", "p", " ", "N", "o", "w", "!">>, Len(generated_text) - 9)
    /\ ~Contains(SubSeq(generated_text, 1, Len(generated_text) - 10), <<"!">>)

(***************************************************************************)
(* Claims about suggest_hashtags                                           *)
(***************************************************************************)
Distinct(s) == \A i, j \in 1..Len(s) : i # j => s[i] # s[j]

MatchedCategories(t) ==
    {k \in 1..Len(hashtag_database) : Contains(Lower(t), hashtag_database[k].category)}

\* 3 of each matched pool, 2 trending picks, 5 generic fallbacks
ReachableCount(t) == 3 * Cardinality(MatchedCategories(t)) + 2 + 5

HashtagTexts == {call[1] : call \in HashtagCalls}

ReachableCountOf == [t \in HashtagTexts |-> ReachableCount(t)]

\* a pass of the padding loop is deterministic in hashtag_list: one that adds
\* nothing while the loop condition holds is repeated for ever
PassAddsNothing ==
    /\ pc = "while"
    /\ NeedsPadding(hashtag_list, tag_count)
    /\ PadFrom(hashtag_list, tag_count, 1) = hashtag_list

\* C2: suggest_hashtags terminates for every text and every count, also a count
\* above all the hashtags there are: the padding loop never reaches a pass that
\* adds nothing while hashtags are still missing.
C2_PaddingLoopTerminates == ~PassAddsNothing

\* C3: for 0 <= N <= the number of distinct hashtags reachable for the text,
\* suggest_hashtags(text, N) returns, and returns exactly N pairwise distinct
\* hashtags, whatever the trending draw and the listing order of the set.
C3_ExactlyNDistinct ==
    (0 <= tag_count /\ tag_count <= ReachableCountOf[tag_text]) =>
        /\ ~PassAddsNothing
        /\ pc = "returned" =>
              /\ Len(returned_hashtags) = tag_count
              /\ Distinct(returned_hashtags)

\* a call with N the whole reachable number, padded with every generic hashtag
C3_Witness ==
    /\ pc = "returned"
    /\ tag_count = ReachableCountOf[tag_text]
    /\ Len(returned_hashtags) = tag_count
    /\ Range(generic_hashtags) \subseteq Range(returned_hashtags)

TechnologyPool == {"#tech", "#innovation", "#digital", "#AI", "#future"}

MentionsTechnology(t) == Contains(Lower(t), <<"t", "e", "c", "h", "n", "o", "l", "o", "g", "y">>)

MentionsOnlyTechnology(t) ==
    /\ MentionsTechnology(t)
    /\ \A c \in {<<"b", "u", "s", "i", "n", "e", "s", "s">>, <<"m", "a", "r", "k", "e", "t", "i", "n", "g">>, <<"h", "e", "a", "l", "t", "h">>, <<"e", "d", "u", "c", "a", "t", "i", "o", "n">>} : ~Contains(Lower(t), c)

TechnologyTexts == {t \in HashtagTexts : MentionsTechnology(t)}

OnlyTechnologyTexts == {t \in HashtagTexts : MentionsOnlyTechnology(t)}

\* C4 as stated: a text that names technology, alone or with other categories,
\* gets 5 hashtags of which one at least is of the technology pool.
C4_TechnologyTagAlways ==
    (pc = "returned" /\ tag_count = 5 /\ tag_text \in TechnologyTexts) =>
        /\ Len(returned_hashtags) = 5
        /\ Range(returned_hashtags) \cap TechnologyPool # {}

\* C4 amended: a text that names technology and no other category gets 5
\* hashtags of which one at least is of the technology pool.
C4_TechnologyTagWhenAlone ==
    (pc = "returned" /\ tag_count = 5 /\ tag_text \in OnlyTechnologyTexts) =>
        /\ Len(returned_hashtags) = 5
        /\ Range(returned_hashtags) \cap TechnologyPool # {}

\* a call with count 5 on a text that names Technology, capitalised, and no
\* other category
C4_Witness ==
    /\ pc = "returned"
    /\ tag_count = 5
    /\ tag_text \in OnlyTechnologyTexts
    /\ ~Contains(tag_text, <<"t", "e", "c", "h", "n", "o", "l", "o", "g", "y">>)
    /\ "#tech" \in Range(returned_hashtags)

(***************************************************************************)
(* Claims about the keyword extractors                                     *)
(***************************************************************************)
\* w is a whole word of s at position p: a run of word characters with no word
\* character before or after it
WordAt(s, p, w) ==
    /\ w # <<>>
    /\ OccursAt(s, w, p)
    /\ \A i \in 1..Len(w) : IsWordChar(w[i])
    /\ p = 1 \/ ~IsWordChar(s[p - 1])
    /\ p + Len(w) > Len(s) \/ ~IsWordChar(s[p + Len(w)])

\* the words kws[k..] are whole words of s found one after the other from position from on
RECURSIVE InOrderFrom(_, _, _, _)
InOrderFrom(kws, s, k, from) ==
    \/ k > Len(kws)
    \/ \E p \in from..Len(s) :
          /\ WordAt(s, p, kws[k])
          /\ InOrderFrom(kws, s, k + 1, p + Len(kws[k]))

StopwordsOfCall ==
    IF pc = "returned _extract_keywords" THEN common_words ELSE common

\* C5: neither extractor returns a token of length 3 or less or a token of its
\* stopword set; the tokens returned are lowercased words of the input, in
\* input order.
C5_KeywordsFiltered ==
    pc \in {"returned _extract_keywords", "returned extract_keywords"} =>
        /\ \A i \in 1..Len(keywords) :
              /\ Len(keywords[i]) > 3
              /\ keywords[i] \notin StopwordsOfCall
        /\ InOrderFrom(keywords, Lower(kw_text), 1, 1)

\* a text with a capitalised four-letter stopword, a three-letter word and six
\* longer words, of which _extract_keywords returns five
C5_Witness ==
    /\ pc = "returned _extract_keywords"
    /\ Contains(kw_text, <<"W", "i", "t", "h", " ">>)
    /\ Contains(kw_text, <<"n", "e", "w", " ">>)
    /\ Len(keywords) = 5
    /\ keywords[1] = <<"f", "r", "e", "s", "h">>

\* a text from which extract_keywords drops a stopword that _extract_keywords
\* does not know, and returns more than five keywords
C5_WitnessHashtagFallback ==
    /\ pc = "returned extract_keywords"
    /\ Contains(kw_text, <<"a", "b", "o", "u", "t", ":", " ">>)
    /\ Len(keywords) > 5
    /\ <<"a", "b", "o", "u", "t">> \notin Range(keywords)

(***************************************************************************)
(* Claims about parse_complex_result                                       *)
(***************************************************************************)
Returned == pc = "returned parse_complex_result"

Occurs(s, key) == Contains(Lower(s), Lower(key))

\* where key first occurs in s, whatever the case of its letters
FirstOccurrence(s, key) ==
    CHOOSE p \in 1..Len(s) :
        /\ OccursAt(Lower(s), Lower(key), p)
        /\ \A k \in 1..(p - 1) : ~OccursAt(Lower(s), Lower(key), k)

\* the position of the line break that ends the line of position i, Len(s) + 1
\* on the last line
LineEnd(s, i) == SkipWhile(s, i, Range(s) \ {"\n"})

\* C6: the result has exactly the four fields, and a field whose label does not
\* occur in the text, in any case of its letters, is the empty string.
C6_FourFieldsMissingEmpty ==
    Returned =>
        /\ DOMAIN parsed = {<<"C", "a", "p", "t", "i", "o", "n">>, <<"P", "o", "s", "t", " ", "I", "d", "e", "a">>, <<"H", "a", "s", "h", "t", "a", "g", "s">>, <<"V", "i", "s", "u", "a", "l", "/", "D", "e", "s", "i", "g", "n", " ", "S", "u", "g", "g", "e", "s", "t", "i", "o", "n">>}
        /\ \A key \in DOMAIN parsed :
              ~Occurs(complex_result, key) => parsed[key] = <<>>

\* a text with a caption and a post idea and neither of the other two labels
C6_Witness ==
    /\ Returned
    /\ parsed[<<"C", "a", "p", "t", "i", "o", "n">>] = <<"G", "r", "e", "a", "t", " ", "d", "a", "y">>
    /\ parsed[<<"P", "o", "s", "t", " ", "I", "d", "e", "a">>] = <<"G", "o", " ", "o", "u", "t", "s", "i", "d", "e">>
    /\ ~Occurs(complex_result, <<"H", "a", "s", "h", "t", "a", "g", "s">>)
    /\ ~Occurs(complex_result, <<"V", "i", "s", "u", "a", "l", "/", "D", "e", "s", "i", "g", "n", " ", "S", "u", "g", "g", "e", "s", "t", "i", "o", "n">>)
    /\ parsed[<<"H", "a", "s", "h", "t", "a", "g", "s">>] = <<>>
    /\ parsed[<<"V", "i", "s", "u", "a", "l", "/", "D", "e", "s", "i", "g", "n", " ", "S", "u", "g", "g", "e", "s", "t", "i", "o", "n">>] = <<>>

ColonsAndBlanks == WhiteSpace \cup {":"}

\* what follows the label on its own line, without the colons and blanks that
\* lead it and the blanks that end it
RestOfLabelLine(s, key) ==
    LET after == FirstOccurrence(s, key) + Len(key)
        rest == SubSeq(s, after, LineEnd(s, after) - 1)
    IN  Strip(SubSeq(rest, SkipWhile(rest, 1, ColonsAndBlanks), Len(rest)))

\* C7 as stated: the value of a label that occurs in the text (as normalised)
\* is the trimmed remainder of the label's own line, never text of a following
\* line, also when only a colon or blanks follow the label on its line.
C7_ValueFromLabelLine ==
    Returned =>
        \A key \in Keys :
            Occurs(normalised, key) => parsed[key] = RestOfLabelLine(normalised, key)

\* C7 amended: the value of a label that occurs in the text (as normalised) is
\* the trimmed remainder of one line, the line of the first character after
\* the label that is neither a colon nor white space: the label's own line if
\* it has such a character after the label, else the next line that has one;
\* the value is empty if the text has none, and never holds a line break.
C7_ValueFromFirstContentLine ==
    Returned =>
        \A key \in Keys :
            Occurs(normalised, key) =>
                LET after == FirstOccurrence(normalised, key) + Len(key)
                IN  /\ "\n" \notin Range(parsed[key])
                    /\ \E q \in after..(Len(normalised) + 1) :
                          /\ \A k \in after..(q - 1) : normalised[k] \in ColonsAndBlanks
                          /\ q <= Len(normalised) => normalised[q] \notin ColonsAndBlanks
                          /\ parsed[key] = Strip(SubSeq(normalised, q, LineEnd(normalised, q) - 1))

\* a label in capitals with only a colon and blanks on its line: the value is
\* the line that follows
C7_Witness ==
    /\ Returned
    /\ complex_result = <<"C", "A", "P", "T", "I", "O", "N", ":", " ", " ", "\n", "A", " ", "s", "u", "n", "n", "y", " ", "p", "h", "o", "t", "o">>
    /\ parsed[<<"C", "a", "p", "t", "i", "o", "n">>] = <<"A", " ", "s", "u", "n", "n", "y", " ", "p", "h", "o", "t", "o">>

\* the normalisation the claim describes: a match of the marker pattern is
\* collapsed only where it leads a line
RECURSIVE CollapseLeadingMarkers(_, _)
CollapseLeadingMarkers(s, i) ==
    IF i > Len(s) THEN <<>>
    ELSE IF (i = 1 \/ s[i] = "\n" \/ s[i - 1] = "\n") /\ MarkerEnd(s, i) # 0
         THEN <<"\n">> \o CollapseLeadingMarkers(s, MarkerEnd(s, i))
    ELSE <<s[i]>> \o CollapseLeadingMarkers(s, i + 1)

\* C8: only list markers that lead a line are collapsed; a digit-dot sequence
\* inside a value is left alone, so every field is the one parsed from the text
\* with only its leading markers collapsed.
C8_OnlyLeadingMarkersCollapsed ==
    Returned =>
        \A key \in Keys :
            parsed[key] = FieldValue(CollapseLeadingMarkers(complex_result, 1), key)

(***************************************************************************)
(* Claims about split_title_desc                                           *)
(***************************************************************************)
\* the five separators, the two dashes as the source file spells them
FiveSeparators == {<<":", " ">>, <<" ", "-", " ">>, <<" ", "U+201A", "U+00C4", "U+00EC", " ">>, <<" ", "U+201A", "U+00C4", "U+00EE", " ">>, <<".", " ">>}

\* C9: a line that contains none of the five separators comes back whole and
\* trimmed as the title, with no description.
C9_NoSeparatorWholeLine ==
    (pc = "returned split_title_desc" /\ \A sep \in FiveSeparators : ~Contains(line, sep)) =>
        /\ title_desc[1] = Strip(line)
        /\ title_desc[2] = None

\* a line that starts with a blank and ends with a dot no blank follows
C9_Witness ==
    /\ pc = "returned split_title_desc"
    /\ line = <<" ", "A", "b", ".">>
    /\ title_desc = << <<"A", "b", ".">>, None >>

\* the separator split_title_desc is to choose: the first of the list that the
\* line contains
ChosenSeparator(s) ==
    LET k == CHOOSE k \in 1..Len(separators) :
                 /\ Contains(s, separators[k])
                 /\ \A j \in 1..(k - 1) : ~Contains(s, separators[j])
    IN  separators[k]

HasSeparator(s) == \E sep \in FiveSeparators : Contains(s, sep)

TextBefore(s, sep) == SubSeq(s, 1, Find(s, sep) - 1)

TextAfter(s, sep) == SubSeq(s, Find(s, sep) + Len(sep), Len(s))

\* C18 as stated: the line is split at the first occurrence of the separator of
\* highest priority it contains; the title is the text before that separator
\* and the description the text after it.
C18_SplitAtPrioritySeparator ==
    (pc = "returned split_title_desc" /\ HasSeparator(line)) =>
        /\ title_desc[1] = TextBefore(line, ChosenSeparator(line))
        /\ title_desc[2] = Some(TextAfter(line, ChosenSeparator(line)))

\* C18 amended: the line is split at the first occurrence of the separator of
\* highest priority it contains; the title is the text before that separator
\* and the description the text after it, each trimmed of the white space
\* around it.
C18_SplitAtPrioritySeparatorTrimmed ==
    (pc = "returned split_title_desc" /\ HasSeparator(line)) =>
        /\ title_desc[1] = Strip(TextBefore(line, ChosenSeparator(line)))
        /\ title_desc[2] = Some(Strip(TextAfter(line, ChosenSeparator(line))))

\* a line in which " - " comes before ": ": the split is made at ": "
C18_Witness ==
    /\ pc = "returned split_title_desc"
    /\ line = <<" ", "-", " ", ":", " ", "A", "b">>
    /\ title_desc = << <<"-">>, Some(<<"A", "b">>) >>

(***************************************************************************)
(* Claims about LLMService.generate_content                                *)
(***************************************************************************)
StartsWithError(value) ==
    /\ value.t = "string"
    /\ Len(value.v) >= 7
    /\ SubSeq(value.v, 1, 7) = <<"E", "r", "r", "o", "r", ":", " ">>

\* the body is JSON and holds a member content of a member message of the first
\* item of a list choices
HasExpectedFields(resp) ==
    /\ ~resp.json.raised
    /\ resp.json.value.t = "object"
    /\ "choices" \in DOMAIN resp.json.value.v
    /\ resp.json.value.v.choices.t = "array"
    /\ resp.json.value.v.choices.v # <<>>
    /\ LET first == resp.json.value.v.choices.v[1]
       IN  /\ first.t = "object"
           /\ "message" \in DOMAIN first.v
           /\ first.v.message.t = "object"
           /\ "content" \in DOMAIN first.v.message.v

\* C14: generate_content raises nothing; a status other than 200, an exception
\* of the request and a 200 response without the expected fields each give a
\* returned text that starts with "Error: ".
C14_ErrorsReturnedAsText ==
    pc \in {"returned generate_content", "raised generate_content"} =>
        /\ ~llm_result.raised
        /\ (\/ response.kind = "exception"
            \/ response.status_code # 200
            \/ ~HasExpectedFields(response)) => StartsWithError(llm_result.value)

\* a 200 response whose body has no member choices
C14_Witness ==
    /\ pc = "returned generate_content"
    /\ response.kind = "response"
    /\ response.status_code = 200
    /\ ~response.json.raised
    /\ response.json.value = JObject([error |-> JString(<<"R", "a", "t", "e", " ", "l", "i", "m", "i", "t", " ", "e", "x", "c", "e", "e", "d", "e", "d">>)])
    /\ llm_result = Ok(JString(<<"E", "r", "r", "o", "r", ":", " ", "'", "c", "h", "o", "i", "c", "e", "s", "'">>))

(***************************************************************************)
(* Claims about PostRepository                                             *)
(***************************************************************************)
\* C15: load_settings returns the default settings when none were saved, and
\* otherwise the tone, the platform list (an empty one too) and the api_key of
\* the most recent save_settings; the table never holds more than one record.
C15_LoadReturnsLastSaved ==
    /\ Cardinality(user_settings) <= 1
    /\ pc = "returned load_settings" =>
          LET loaded == CHOOSE s \in repo_returned : TRUE
          IN  IF last_settings = None
              THEN /\ loaded.default_tone = "professional"
                   /\ loaded.default_platforms = <<<<"F", "a", "c", "e", "b", "o", "o", "k">>, <<"T", "w", "i", "t", "t", "e", "r">>>>
                   /\ loaded.api_key = <<>>
              ELSE \A saved \in last_settings :
                      /\ loaded.default_tone = saved.default_tone
                      /\ loaded.default_platforms = saved.default_platforms
                      /\ loaded.api_key = saved.api_key

\* settings with an empty platform list, saved over earlier ones and loaded
C15_Witness ==
    /\ pc = "returned load_settings"
    /\ Cardinality(user_settings) = 1
    /\ \E saved \in last_settings :
          /\ saved.default_platforms = <<>>
          /\ saved.api_key # <<>>
          /\ saved.default_tone = "empathetic"
          /\ repo_returned = Some(saved)

LiveIds == (1..Len(saved_posts)) \ deleted_ids

\* C16: get_all_posts returns exactly the posts saved and not deleted, each once,
\* in an order of non-increasing timestamp, each with the text, hashtag list,
\* platform, tone and content_type it was saved with.
C16_AllPostsNewestFirst ==
    pc = "returned get_all_posts" =>
        \A listed \in repo_returned :
            /\ Len(listed) = Cardinality(LiveIds)
            /\ {listed[i].id : i \in 1..Len(listed)} = {Some(id) : id \in LiveIds}
            /\ \A i \in 1..Len(listed) : \A id \in listed[i].id :
                  /\ id \in LiveIds
                  /\ listed[i].text = saved_posts[id].text
                  /\ listed[i].hashtags = saved_posts[id].hashtags
                  /\ listed[i].platform = saved_posts[id].platform
                  /\ listed[i].tone = saved_posts[id].tone
                  /\ listed[i].content_type = saved_posts[id].content_type
                  /\ listed[i].timestamp = saved_posts[id].timestamp
            /\ \A i, j \in 1..Len(listed) :
                  i < j => ~TextLess(listed[i].timestamp, listed[j].timestamp)

\* three posts saved, the first one deleted, the two left listed with the one
\* saved last and stamped earlier in second place
C16_Witness ==
    /\ pc = "returned get_all_posts"
    /\ Len(saved_posts) = 3
    /\ deleted_ids = {1}
    /\ \E listed \in repo_returned :
          /\ Len(listed) = 2
          /\ listed[1].id = Some(2)
          /\ listed[2].id = Some(3)
          /\ TextLess(listed[2].timestamp, listed[1].timestamp)
          /\ listed[1].hashtags = << <<"#", "c", "o", "f", "f", "e", "e">>, <<"#", "s", "a", "y", "\"", "h", "i", "\"">> >>
          /\ listed[2].hashtags = <<>>

(***************************************************************************)
(* Claims about the session and generate_comprehensive_content             *)
(***************************************************************************)
\* C12: every post the generation offers for saving is no longer than the limit
\* of its platform, whether it comes from the templates or is cut out of the
\* text the remote generator returned.
C12_OfferedPostsWithinLimit ==
    pc = "generated" =>
        \A platform \in DOMAIN generated_posts :
            Len(generated_posts[platform]) <= StatedLimit(platform)

\* the api_key of the settings record, "" when there is none
PersistedApiKey ==
    IF user_settings = {} THEN <<>> ELSE (CHOOSE row \in user_settings : TRUE).api_key

SessionInitialised == "llm_service" \in DOMAIN session_state

\* C19: once the session is initialised, and after every save of the settings,
\* llm_service is present exactly when the persisted api_key is not empty, and
\* holds that key; so a generation asked with use_llm while no api_key is
\* stored takes the template branch in its four blocks and makes no remote call.
C19_ServiceIffApiKey ==
    SessionInitialised =>
        /\ (session_state.llm_service # None) <=> (PersistedApiKey # <<>>)
        /\ \A service \in session_state.llm_service : service.api_key = PersistedApiKey
        /\ (pc = "generated" /\ gen_request.use_llm /\ PersistedApiKey = <<>>) =>
              /\ blocks = [posts |-> "template", image_ideas |-> "template",
                           caption |-> "template", hashtags |-> "template"]
              /\ remote_calls = <<>>

\* a key was stored, was then replaced by an empty one, and a generation asked
\* with use_llm gave posts without a remote call
C19_Witness ==
    /\ pc = "generated"
    /\ gen_request.use_llm
    /\ gen_request.platforms = <<"Facebook", "Twitter">>
    /\ \E saved \in last_settings : saved.api_key = <<>>
    /\ PersistedApiKey = <<>>
    /\ session_state.llm_service = None
    /\ remote_calls = <<>>
    /\ DOMAIN generated_posts = {"Facebook", "Twitter"}
    /\ blocks.posts = "template"

====
